---- MODULE Spec2Model ----
(***************************************************************************)
(* Model of the sales ETL of src/main.py: limpiar_ventas_validas,          *)
(* limpiar_ventas_invalidas and generar_ventas_resumen_mensual applied in  *)
(* the order of the script (lines 184-186) to the frame df_principal.      *)
(*                                                                         *)
(* A text value is a sequence of one-character strings; a null cell (NaN,  *)
(* NaT, None) is the value Null.  A parsed number is a decimal             *)
(* [m |-> mantissa, s |-> scale] standing for m / 10^s; a rounded amount   *)
(* is a whole number of hundredths.                                        *)
(***************************************************************************)
EXTENDS Integers, Sequences, FiniteSets, TLC

VARIABLES
    sin_columnas,   \* TRUE when no CSV was loaded: df_principal is pd.DataFrame()
    batch,          \* the rows of df_principal, in input order
    pc,             \* position of the script: validas, invalidas, resumen, fin, abortado
    df_validas,     \* result of limpiar_ventas_validas
    df_invalidas,   \* result of limpiar_ventas_invalidas
    df_resumen      \* result of generar_ventas_resumen_mensual

vars == <<sin_columnas, batch, pc, df_validas, df_invalidas, df_resumen>>

----------------------------------------------------------------------------
(* Bounds of the model *)

\* rows of a batch of the whole-pipeline specification
MaxRows == 3
\* fields of a row of that specification that are off the well-formed value
MaxDefects == 2
\* rows of a batch of the specification of the invalid-sales classifier
MaxInvRows == 4
\* rows of a batch of the specification of the monthly summary
MaxSales == 3
\* text parts concatenated into one raw Amount
MaxParts == 4

----------------------------------------------------------------------------
(* Text *)

Null == <<"<NA>">>

LowerLetters ==
    <<"a","b","c","d","e","f","g","h","i","j","k","l","m",
      "n","o","p","q","r","s","t","u","v","w","x","y","z">>

UpperLetters ==
    <<"A","B","C","D","E","F","G","H","I","J","K","L","M",
      "N","O","P","Q","R","S","T","U","V","W","X","Y","Z">>

Digits == <<"0","1","2","3","4","5","6","7","8","9">>

IsDigit(c) == \E i \in DOMAIN Digits : Digits[i] = c

DigitVal(c) == (CHOOSE i \in DOMAIN Digits : Digits[i] = c) - 1

UpperChar(c) ==
    IF \E i \in DOMAIN LowerLetters : LowerLetters[i] = c
    THEN UpperLetters[CHOOSE i \in DOMAIN LowerLetters : LowerLetters[i] = c]
    ELSE c

\* str.upper()
StrUpper(s) == [i \in 1..Len(s) |-> UpperChar(s[i])]

\* .str.upper() of a column cell: the .str accessor leaves a null cell null
SaleIdArreglado(v) == IF v = Null THEN Null ELSE StrUpper(v)

\* str.endswith(suf)
EndsWith(s, suf) ==
    /\ Len(s) >= Len(suf)
    /\ SubSeq(s, Len(s) - Len(suf) + 1, Len(s)) = suf

\* pat in s
Contains(s, pat) ==
    \E i \in 1..(Len(s) - Len(pat) + 1) : SubSeq(s, i, i + Len(pat) - 1) = pat

\* str.replace(pat, ''): one left-to-right pass over non-overlapping matches
RECURSIVE StrRemove(_, _)
StrRemove(s, pat) ==
    IF Len(s) < Len(pat) THEN s
    ELSE IF SubSeq(s, 1, Len(pat)) = pat
         THEN StrRemove(SubSeq(s, Len(pat) + 1, Len(s)), pat)
         ELSE <<s[1]>> \o StrRemove(Tail(s), pat)

\* str.strip() of blanks
RECURSIVE StrStrip(_)
StrStrip(s) ==
    IF s = <<>> THEN s
    ELSE IF s[1] = " " THEN StrStrip(Tail(s))
    ELSE IF s[Len(s)] = " " THEN StrStrip(SubSeq(s, 1, Len(s) - 1))
    ELSE s

\* str.split('-')[-1]: the text after the last '-'
LastSegment(s) ==
    LET cuts == {i \in 1..Len(s) : s[i] = "-"}
    IN  IF cuts = {} THEN s
        ELSE LET k == CHOOSE i \in cuts : \A j \in cuts : j <= i
             IN  SubSeq(s, k + 1, Len(s))

\* astype(str): a null cell becomes the text nan
AsTypeStr(v) == IF v = Null THEN <<"n","a","n">> ELSE v

----------------------------------------------------------------------------
(* Numbers *)

RECURSIVE Pow10(_)
Pow10(n) == IF n = 0 THEN 1 ELSE 10 * Pow10(n - 1)

RECURSIVE DigitsValue(_)
DigitsValue(s) ==
    IF s = <<>> THEN 0
    ELSE 10 * DigitsValue(SubSeq(s, 1, Len(s) - 1)) + DigitVal(s[Len(s)])

\* The text forms float() accepts among the texts of this model: digits with
\* at most one decimal point and at least one digit.  The texts drawn hold no
\* sign, blank, underscore, inf/nan spelling, nor a digit after an E, so the
\* other forms float() accepts do not occur.
IsNumberText(s) ==
    /\ \A i \in 1..Len(s) : IsDigit(s[i]) \/ s[i] = "."
    /\ Cardinality({i \in 1..Len(s) : s[i] = "."}) <= 1
    /\ \E i \in 1..Len(s) : IsDigit(s[i])

\* float(s) of a number text, as the decimal m / 10^s
ParseFloat(s) ==
    LET dots == {i \in 1..Len(s) : s[i] = "."}
        k    == IF dots = {} THEN Len(s) + 1 ELSE CHOOSE i \in dots : TRUE
    IN  [m |-> DigitsValue(SubSeq(s, 1, k - 1) \o SubSeq(s, k + 1, Len(s))),
         s |-> IF dots = {} THEN 0 ELSE Len(s) - k]

\* x * 0.85
Times085(d) == [m |-> d.m * 85, s |-> d.s + 2]

\* round(2), in hundredths.  The set of values the rounding can give: a value
\* that lies exactly half way between two hundredths is a binary float just
\* below or just above the half, so either neighbour can result.
Round2(d) ==
    IF d.s <= 2 THEN {d.m * Pow10(2 - d.s)}
    ELSE LET unit == Pow10(d.s - 2)
             q    == d.m \div unit
             r    == d.m % unit
         IN  IF 2 * r < unit THEN {q}
             ELSE IF 2 * r > unit THEN {q + 1}
             ELSE {q, q + 1}

----------------------------------------------------------------------------
(* Dates *)

DaysInMonth(y, m) ==
    IF m \in {4, 6, 9, 11} THEN 30
    ELSE IF m = 2
         THEN (IF (y % 4 = 0 /\ y % 100 # 0) \/ y % 400 = 0 THEN 29 ELSE 28)
         ELSE 31

\* pd.to_datetime(text, errors='coerce') of the cells of this model, which are
\* null or texts of the shape YYYY-MM-DD: the calendar date
\* <<year, month, day>>, or NaT (Null) when the cell names no date.
ParseDate(s) ==
    IF /\ s # Null
       /\ Len(s) = 10
       /\ s[5] = "-" /\ s[8] = "-"
       /\ \A i \in {1, 2, 3, 4, 6, 7, 9, 10} : IsDigit(s[i])
    THEN LET y == DigitsValue(SubSeq(s, 1, 4))
             m == DigitsValue(SubSeq(s, 6, 7))
             d == DigitsValue(SubSeq(s, 9, 10))
         IN  IF y >= 1 /\ m \in 1..12 /\ d >= 1 /\ d <= DaysInMonth(y, m)
             THEN <<y, m, d>>
             ELSE Null
    ELSE Null

RECURSIVE ZeroPad(_, _)
ZeroPad(n, width) ==
    IF width = 0 THEN <<>>
    ELSE ZeroPad(n \div 10, width - 1) \o <<Digits[(n % 10) + 1]>>

\* dt.strftime('%m/%Y')
StrftimeMesAnio(date) == ZeroPad(date[2], 2) \o <<"/">> \o ZeroPad(date[1], 4)

----------------------------------------------------------------------------
(* Frames *)

\* A frame is a sequence of rows.  The columns Sale_ID, Product, Amount and
\* Date of df_principal are of dtype object: each cell is a text or null.
\* Audit_Date was made by pd.to_datetime in cargar_ficheros_en_dataframe:
\* each cell is a date or NaT.  fila is the row's label in df_principal.
Row(i, r) ==
    [fila |-> i, Sale_ID |-> r.Sale_ID, Product |-> r.Product,
     Amount |-> r.Amount, Date |-> r.Date, Audit_Date |-> r.Audit_Date]

\* df_principal.copy()
Frame(rows) == [i \in 1..Len(rows) |-> Row(i, rows[i])]

\* df[mask]: the rows at the positions of mask from position i on, in order
RECURSIVE RowsFrom(_, _, _)
RowsFrom(df, mask, i) ==
    IF i > Len(df) THEN <<>>
    ELSE (IF i \in mask THEN <<df[i]>> ELSE <<>>) \o RowsFrom(df, mask, i + 1)

\* df[mask], the mask being the set of the positions kept
Where(df, mask) == RowsFrom(df, mask, 1)

USD == <<"U","S","D">>
EUR == <<"E","U","R">>

----------------------------------------------------------------------------
(* limpiar_ventas_validas *)

\* drop_duplicates(subset=['Sale_ID'], keep='first')
DropDuplicatesFirst(df) ==
    Where(df, {i \in 1..Len(df) :
                  \A j \in 1..(i - 1) : df[j].Sale_ID # df[i].Sale_ID})

\* lines 59-63: Sale_ID in capitals, nulls dropped, then duplicates dropped
ArreglosSaleId(df) ==
    LET up    == [i \in 1..Len(df) |->
                    [df[i] EXCEPT !.Sale_ID = SaleIdArreglado(df[i].Sale_ID)]]
        notna == Where(up, {i \in 1..Len(up) : up[i].Sale_ID # Null})
    IN  DropDuplicatesFirst(notna)

\* str.upper().str.strip().str.split('-').str[-1]; a null cell stays null
ProductArreglado(v) ==
    IF v = Null THEN Null ELSE LastSegment(StrStrip(StrUpper(v)))

\* lines 67-69
ArreglosProduct(df) ==
    LET pr == [i \in 1..Len(df) |->
                 [df[i] EXCEPT !.Product = ProductArreglado(df[i].Product)]]
    IN  Where(pr, {i \in 1..Len(pr) : pr[i].Product # Null})

\* line 77: str.replace('USD', '').str.replace('EUR', '')
AmountArreglado(v) == StrRemove(StrRemove(v, USD), EUR)

\* line 79: astype(float) raises ValueError when one cell of the column is a
\* text that is no number
AsTypeFloatRaises(df) ==
    \E i \in 1..Len(df) :
        /\ df[i].Amount # Null
        /\ ~IsNumberText(AmountArreglado(df[i].Amount))

\* the same with the EUR ending looked for in the text already stripped
AmountNormalizadoStripped(df_amount_original) ==
    LET Amount_arreglado == AmountArreglado(df_amount_original)
        x                == ParseFloat(Amount_arreglado)
    IN  Round2(IF EndsWith(Amount_arreglado, EUR) THEN Times085(x) ELSE x)

\* lines 75-83 for one non-null cell: the hundredths the cell can become
AmountNormalizado(df_amount_original) ==
    LET x == ParseFloat(AmountArreglado(df_amount_original))
    IN  Round2(IF EndsWith(df_amount_original, EUR) THEN Times085(x) ELSE x)

\* lines 75-87: the frames the Amount section can give; a null Amount stays
\* NaN through the arithmetic and its row is dropped at line 85
RECURSIVE ArreglosAmount(_)
ArreglosAmount(df) ==
    IF df = <<>> THEN {<<>>}
    ELSE LET r    == df[1]
             rest == ArreglosAmount(Tail(df))
         IN  IF r.Amount = Null THEN rest
             ELSE {<<[r EXCEPT !.Amount = a]>> \o f :
                       a \in AmountNormalizado(r.Amount), f \in rest}

\* lines 92-97: Date parsed with errors='coerce'; Audit_Date is a datetime
\* column already, which to_datetime returns as it is; NaT rows dropped
ArreglosDate(df) ==
    LET dt == [i \in 1..Len(df) |->
                 [df[i] EXCEPT !.Date = ParseDate(df[i].Date)]]
        d1 == Where(dt, {i \in 1..Len(dt) : dt[i].Date # Null})
    IN  Where(d1, {i \in 1..Len(d1) : d1[i].Audit_Date # Null})

\* the call raises: KeyError at line 59 on a frame without columns, or
\* ValueError at line 79
ValidasRaises(sc, rows) ==
    \/ sc
    \/ AsTypeFloatRaises(ArreglosProduct(ArreglosSaleId(Frame(rows))))

\* the frames the call can return
ValidasResults(rows) ==
    {ArreglosDate(f) :
        f \in ArreglosAmount(ArreglosProduct(ArreglosSaleId(Frame(rows))))}

----------------------------------------------------------------------------
(* limpiar_ventas_invalidas *)

\* lines 112-113: astype(str) first, so a null Sale_ID or Product becomes a text
LimpiezaSaleIdProduct(df) ==
    [i \in 1..Len(df) |->
        [df[i] EXCEPT !.Sale_ID = StrUpper(AsTypeStr(df[i].Sale_ID)),
                      !.Product = StrUpper(LastSegment(AsTypeStr(df[i].Product)))]]

\* line 119: df.isnull().any(axis=1)
MaskNulos(r) ==
    \/ r.Sale_ID = Null
    \/ r.Product = Null
    \/ r.Amount = Null
    \/ r.Date = Null
    \/ r.Audit_Date = Null

\* lines 127-129: no USD and no EUR in the Amount text put in capitals
MaskMontoInvalido(r) ==
    LET Amount_str == StrUpper(AsTypeStr(r.Amount))
    IN  ~(Contains(Amount_str, USD) \/ Contains(Amount_str, EUR))

\* line 136: duplicated(subset='Sale_ID', keep=False)
Duplicados(df) ==
    Where(df, {i \in 1..Len(df) :
        \E j \in 1..Len(df) : j # i /\ df[j].Sale_ID = df[i].Sale_ID})

WithReason(df, reason) ==
    [i \in 1..Len(df) |->
        [fila |-> df[i].fila, Sale_ID |-> df[i].Sale_ID,
         Product |-> df[i].Product, Amount |-> df[i].Amount,
         Date |-> df[i].Date, Audit_Date |-> df[i].Audit_Date,
         Reason |-> reason]]

\* the buckets joined in the order in which the rows were read
ConcatInvalidasInputOrder(df_nulos, df_monto_invalido, df_duplicados) ==
    LET all == df_nulos \o df_monto_invalido \o df_duplicados
        RECURSIVE Sorted(_)
        Sorted(S) ==
            IF S = {} THEN <<>>
            ELSE LET k == CHOOSE x \in S : \A y \in S : all[x].fila <= all[y].fila
                 IN  <<all[k]>> \o Sorted(S \ {k})
    IN  Sorted(DOMAIN all)

\* line 141: pd.concat([df_nulos, df_monto_invalido, df_duplicados])
ConcatInvalidas(df_nulos, df_monto_invalido, df_duplicados) ==
    df_nulos \o df_monto_invalido \o df_duplicados

\* lines 108-147.  The result's own index is renumbered (ignore_index); fila
\* keeps the label the row had in df_principal.
InvalidasResult(rows) ==
    LET df                == LimpiezaSaleIdProduct(Frame(rows))
        df_nulos          == Where(df, {i \in 1..Len(df) : MaskNulos(df[i])})
        df_no_nulos       == Where(df, {i \in 1..Len(df) : ~MaskNulos(df[i])})
        df_monto_invalido ==
            Where(df_no_nulos, {i \in 1..Len(df_no_nulos) :
                                   MaskMontoInvalido(df_no_nulos[i])})
        df_restantes      ==
            Where(df_no_nulos, {i \in 1..Len(df_no_nulos) :
                                   ~MaskMontoInvalido(df_no_nulos[i])})
        df_duplicados     == Duplicados(df_restantes)
    IN  ConcatInvalidas(WithReason(df_nulos, "N"),
                        WithReason(df_monto_invalido, "A"),
                        WithReason(df_duplicados, "D"))

----------------------------------------------------------------------------
(* generar_ventas_resumen_mensual *)

CharOrder == <<" ", "-", ".", "/">> \o Digits \o UpperLetters \o LowerLetters

CharOrd(c) == CHOOSE i \in DOMAIN CharOrder : CharOrder[i] = c

\* a < b for texts
RECURSIVE TextLess(_, _)
TextLess(a, b) ==
    IF b = <<>> THEN FALSE
    ELSE IF a = <<>> THEN TRUE
    ELSE IF a[1] = b[1] THEN TextLess(Tail(a), Tail(b))
    ELSE CharOrd(a[1]) < CharOrd(b[1])

\* the group key (Mes, Product) of one before that of the other
KeyLess(m1, p1, m2, p2) ==
    TextLess(m1, m2) \/ (m1 = m2 /\ TextLess(p1, p2))

\* the same with the groups keyed by the month alone
AgregarPorMes(grupos, mes, producto, amount) ==
    IF \E k \in 1..Len(grupos) : grupos[k].Mes = mes
    THEN [k \in 1..Len(grupos) |->
            IF grupos[k].Mes = mes
            THEN [grupos[k] EXCEPT
                    !.Ventas_Totales = @ + amount,
                    !.Numero_Transacciones = @ + 1,
                    !.Venta_Minima = IF amount < @ THEN amount ELSE @]
            ELSE grupos[k]]
    ELSE Append(grupos,
                [Mes |-> mes, Producto |-> producto,
                 Ventas_Totales |-> amount, Numero_Transacciones |-> 1,
                 Venta_Minima |-> amount])

\* one more sale in the groups: its group's sum, count and min are brought
\* up to date, or a group is opened at its place in key order
Agregar(grupos, mes, producto, amount) ==
    IF \E k \in 1..Len(grupos) :
           grupos[k].Mes = mes /\ grupos[k].Producto = producto
    THEN [k \in 1..Len(grupos) |->
            IF grupos[k].Mes = mes /\ grupos[k].Producto = producto
            THEN [grupos[k] EXCEPT
                    !.Ventas_Totales = @ + amount,
                    !.Numero_Transacciones = @ + 1,
                    !.Venta_Minima = IF amount < @ THEN amount ELSE @]
            ELSE grupos[k]]
    ELSE LET before == SelectSeq(grupos,
                 LAMBDA g : KeyLess(g.Mes, g.Producto, mes, producto))
             after  == SelectSeq(grupos,
                 LAMBDA g : ~KeyLess(g.Mes, g.Producto, mes, producto))
         IN  before
               \o <<[Mes |-> mes, Producto |-> producto,
                     Ventas_Totales |-> amount, Numero_Transacciones |-> 1,
                     Venta_Minima |-> amount]>>
               \o after

\* df.groupby(['Mes', 'Product']).agg({'Amount': ['sum', 'count', 'min']})
RECURSIVE GroupBy(_, _)
GroupBy(df, grupos) ==
    IF df = <<>> THEN grupos
    ELSE GroupBy(Tail(df),
                 Agregar(grupos, df[1].Mes, df[1].Product, df[1].Amount))

\* lines 159-175
ResumenMensual(df) ==
    LET conMes == [i \in 1..Len(df) |->
                     [Mes |-> StrftimeMesAnio(df[i].Date),
                      Product |-> df[i].Product, Amount |-> df[i].Amount]]
    IN  GroupBy(conMes, <<>>)

----------------------------------------------------------------------------
(* Inputs *)

SaleA1Lower == <<"a","1">>
SaleA1      == <<"A","1">>
SaleB2      == <<"b","2">>
SaleNAN     == <<"N","A","N">>

ProductPA == <<"p","-","a">>
ProductB  == <<"B">>

Amount100EUR   == <<"1","0","0","E","U","R">>
Amount100USD   == <<"1","0","0","U","S","D">>
Amount100      == <<"1","0","0">>
Amount100Lower == <<"1","0","0","u","s","d">>

DateMarch   == <<"2","0","2","4","-","0","3","-","0","5">>
DateMarch20 == <<"2","0","2","4","-","0","3","-","2","0">>
DateApril   == <<"2","0","2","4","-","0","4","-","0","1">>
DateMonth13 == <<"2","0","2","4","-","1","3","-","0","1">>

AuditDate == <<2024, 4, 2>>

\* the frames of at most n rows over a set of rows
Batches(Rows, n) == UNION {[1..k -> Rows] : k \in 0..n}

\* the fields of a row that are off the well-formed value: a null Sale_ID,
\* a null Product, an Amount other than 100EUR, a Date other than a date text
Defects(r) ==
    Cardinality({f \in {"Sale_ID", "Product"} : r[f] = Null}
                  \cup (IF r.Amount # Amount100EUR THEN {"Amount"} ELSE {})
                  \cup (IF r.Date # DateMarch THEN {"Date"} ELSE {}))

\* rows of the whole-pipeline specification
RawRecords ==
    {r \in [Sale_ID    : {Null, SaleA1Lower, SaleA1, SaleNAN},
            Product    : {Null, ProductPA},
            Amount     : {Amount100EUR, Amount100, Amount100Lower},
            Date       : {Null, DateMarch, DateMonth13},
            Audit_Date : {AuditDate}] : Defects(r) <= MaxDefects}

\* rows of the specification of the invalid-sales classifier
InvRecords ==
    [Sale_ID    : {SaleA1Lower, SaleA1, SaleB2},
     Product    : {ProductPA},
     Amount     : {Null, Amount100USD, Amount100},
     Date       : {DateMarch},
     Audit_Date : {AuditDate}]

\* the Sale_ID of the i-th row of a frame of the monthly-summary specification
SaleIdOf(i) == <<"s", Digits[i + 1]>>

\* rows of the specification of the monthly summary, but for their Sale_ID
SalesRecords ==
    [Product    : {ProductPA, ProductB},
     Amount     : {Amount100EUR, Amount100USD},
     Date       : {DateMarch, DateMarch20, DateApril},
     Audit_Date : {AuditDate}]

\* the frames of at most n such rows, each row with a Sale_ID of its own
SalesFrames(n) ==
    UNION {{[i \in 1..k |->
               [Sale_ID |-> SaleIdOf(i), Product |-> f[i].Product,
                Amount |-> f[i].Amount, Date |-> f[i].Date,
                Audit_Date |-> f[i].Audit_Date]] :
            f \in [1..k -> SalesRecords]} : k \in 0..n}

AmountParts ==
    {<<"1">>, <<"5">>, <<".">>, <<".","2","3","4">>,
     EUR, USD, <<"e","u","r">>, <<"E","U">>, <<"R">>}

\* the texts made of 1 to n parts
RECURSIVE AmountTexts(_)
AmountTexts(n) ==
    IF n = 0 THEN {}
    ELSE AmountParts
           \cup {t \o part : t \in AmountTexts(n - 1), part \in AmountParts}

\* frames of the specification of the Amount rule: a row with one of these
\* texts as its Amount, then a row with the Amount 100USD
AmountFrames ==
    {<<[Sale_ID |-> SaleA1Lower, Product |-> ProductPA, Amount |-> a,
        Date |-> DateMarch, Audit_Date |-> AuditDate],
       [Sale_ID |-> SaleB2, Product |-> ProductB, Amount |-> Amount100USD,
        Date |-> DateApril, Audit_Date |-> AuditDate]>> :
     a \in AmountTexts(MaxParts)}

----------------------------------------------------------------------------
(* The script, lines 184-186 *)

\* read_csv keeps a column as texts (dtype object) when one of its cells is
\* a text that is no number; a column of numbers and empty cells only would
\* be numeric.  The frames of the model are those of one CSV file whose
\* Sale_ID, Product and Amount columns are of dtype object, so that each cell
\* is a text or null, and the frames with these columns and no row.
ObjectColumns(rows) ==
    \/ rows = <<>>
    \/ \A c \in {"Sale_ID", "Product", "Amount"} :
           \E i \in 1..Len(rows) :
               rows[i][c] # Null /\ ~IsNumberText(rows[i][c])

\* line 40: df_principal is the frame of the CSV rows, or pd.DataFrame(),
\* without columns, when no CSV was found
Start(Frames) ==
    /\ pc = "validas"
    /\ df_validas = <<>>
    /\ df_invalidas = <<>>
    /\ df_resumen = <<>>
    /\ \/ sin_columnas = TRUE /\ batch = <<>>
       \/ /\ sin_columnas = FALSE
          /\ batch \in {f \in Frames : ObjectColumns(f)}

Init == Start(Batches(RawRecords, MaxRows))

InitInvalidas == Start(Batches(InvRecords, MaxInvRows))

InitResumen == Start(SalesFrames(MaxSales))

InitAmount == Start(AmountFrames)

\* line 184, the call returns
LimpiarVentasValidas ==
    /\ pc = "validas"
    /\ ~ValidasRaises(sin_columnas, batch)
    /\ \E df \in ValidasResults(batch) : df_validas' = df
    /\ pc' = "invalidas"
    /\ UNCHANGED <<sin_columnas, batch, df_invalidas, df_resumen>>

\* line 184, the call raises: nothing catches it and the script ends there
LimpiarVentasValidasRaises ==
    /\ pc = "validas"
    /\ ValidasRaises(sin_columnas, batch)
    /\ pc' = "abortado"
    /\ UNCHANGED <<sin_columnas, batch, df_validas, df_invalidas, df_resumen>>

\* line 185
LimpiarVentasInvalidas ==
    /\ pc = "invalidas"
    /\ df_invalidas' = InvalidasResult(batch)
    /\ pc' = "resumen"
    /\ UNCHANGED <<sin_columnas, batch, df_validas, df_resumen>>

\* line 186
GenerarVentasResumenMensual ==
    /\ pc = "resumen"
    /\ df_resumen' = ResumenMensual(df_validas)
    /\ pc' = "fin"
    /\ UNCHANGED <<sin_columnas, batch, df_validas, df_invalidas>>

Next ==
    \/ LimpiarVentasValidas
    \/ LimpiarVentasValidasRaises
    \/ LimpiarVentasInvalidas
    \/ GenerarVentasResumenMensual

Spec == Init /\ [][Next]_vars

SpecInvalidas == InitInvalidas /\ [][Next]_vars

SpecResumen == InitResumen /\ [][Next]_vars

SpecAmount == InitAmount /\ [][Next]_vars

----------------------------------------------------------------------------
(* Vocabulary of the properties *)

\* the row labelled i of df_principal is a row of the valid sales
InValidSale(i) == \E k \in 1..Len(df_validas) : df_validas[k].fila = i

\* the places of the row labelled i of df_principal in the invalid sales
PlacesInInvalidSale(i) ==
    {k \in 1..Len(df_invalidas) : df_invalidas[k].fila = i}

InInvalidSale(i) == PlacesInInvalidSale(i) # {}

ReasonsOf(i) == {df_invalidas[k].Reason : k \in PlacesInInvalidSale(i)}

\* a field of the record is absent after normalization: a null Sale_ID or
\* Product, an Amount that is no number once USD and EUR are removed, a Date
\* or Audit date that names no calendar date
AbsentField(r) ==
    \/ r.Sale_ID = Null
    \/ r.Product = Null
    \/ r.Amount = Null
    \/ ~IsNumberText(AmountArreglado(r.Amount))
    \/ ParseDate(r.Date) = Null
    \/ r.Audit_Date = Null

\* the currency tag holds neither USD nor EUR, in any case of the letters
BadCurrencyTag(r) ==
    \/ r.Amount = Null
    \/ /\ ~Contains(StrUpper(r.Amount), USD)
       /\ ~Contains(StrUpper(r.Amount), EUR)

\* the records i and j both have a sale_id, the same one once in capitals
SameSaleId(i, j) ==
    /\ batch[i].Sale_ID # Null
    /\ batch[j].Sale_ID # Null
    /\ StrUpper(batch[i].Sale_ID) = StrUpper(batch[j].Sale_ID)

SharesSaleId(i) == \E j \in 1..Len(batch) : j # i /\ SameSaleId(i, j)

Disqualified(i) ==
    AbsentField(batch[i]) \/ BadCurrencyTag(batch[i]) \/ SharesSaleId(i)

----------------------------------------------------------------------------
(* C1 *)

\* C1: when the run has ended, every record of the batch is a valid sale or
\* an invalid sale with one reason, and every record with a disqualifying
\* condition (an absent field, a currency tag without USD and EUR, a sale_id
\* shared with another record) is an invalid sale.
C1_NoRecordDropped ==
    pc = "fin" =>
        \A i \in 1..Len(batch) :
            /\ InValidSale(i) \/ InInvalidSale(i)
            /\ Cardinality(ReasonsOf(i)) <= 1
            /\ Disqualified(i) => InInvalidSale(i)

----------------------------------------------------------------------------
(* C2 *)

\* filter, then deduplicate: the record has no absent field and no earlier
\* record without an absent field has its sale_id
FilterThenDeduplicateKeeps(i) ==
    /\ ~AbsentField(batch[i])
    /\ \A j \in 1..(i - 1) : ~(SameSaleId(i, j) /\ ~AbsentField(batch[j]))

\* C2: when the run has ended, the valid sales are the records that 'filter
\* then deduplicate' keeps, in input order.
C2_FilterThenDeduplicate ==
    pc = "fin" =>
        /\ \A i \in 1..Len(batch) :
               InValidSale(i) <=> FilterThenDeduplicateKeeps(i)
        /\ \A k \in 1..(Len(df_validas) - 1) :
               df_validas[k].fila < df_validas[k + 1].fila

----------------------------------------------------------------------------
(* C3 *)

\* C3: when the run has ended, every record with an absent field is an
\* invalid sale with Reason N.
C3_AbsentFieldIsReasonN ==
    pc = "fin" =>
        \A i \in 1..Len(batch) :
            AbsentField(batch[i]) => "N" \in ReasonsOf(i)

----------------------------------------------------------------------------
(* C4 *)

\* C4: when the run has ended, each record is at most once among the invalid
\* sales, with one reason of N, A, D; a record with an absent field and a
\* currency tag without USD and EUR is reported as N only; a record without
\* absent field, with such a tag, that shares its sale_id is reported as A only.
C4_DisjointBucketsInOrder ==
    pc = "fin" =>
        \A i \in 1..Len(batch) :
            /\ Cardinality(PlacesInInvalidSale(i)) <= 1
            /\ ReasonsOf(i) \subseteq {"N", "A", "D"}
            /\ AbsentField(batch[i]) /\ BadCurrencyTag(batch[i])
                   => ReasonsOf(i) = {"N"}
            /\ ~AbsentField(batch[i]) /\ BadCurrencyTag(batch[i])
                 /\ SharesSaleId(i)
                   => ReasonsOf(i) = {"A"}

----------------------------------------------------------------------------
(* C5 *)

\* C5: on a frame of records no run is aborted: a field that does not parse
\* becomes absent and the three result sets are handed over.
C5_NeverAborts == ~sin_columnas => pc # "abortado"

----------------------------------------------------------------------------
(* C6 *)

\* the records that share the sale_id of record i, record i among them
GroupOf(i) == {j \in 1..Len(batch) : SameSaleId(i, j)}

OtherwiseValid(r) == ~AbsentField(r) /\ ~BadCurrencyTag(r)

\* of a group of two or more records with one sale_id, all otherwise valid,
\* the valid sales hold the first and only the first, and the invalid sales
\* hold every one with Reason D
DuplicatesDiverge ==
    \A i \in 1..Len(batch) :
        (/\ Cardinality(GroupOf(i)) >= 2
         /\ \A j \in GroupOf(i) : OtherwiseValid(batch[j]))
        => \A j \in GroupOf(i) :
               /\ InValidSale(j) <=> (\A h \in GroupOf(i) : j <= h)
               /\ ReasonsOf(j) = {"D"}

\* C6: for every batch, once the script is over, the duplicates diverge: the
\* first of them is a valid sale and all of them are invalid sales tagged D.
C6_DuplicatesDiverge == pc \in {"fin", "abortado"} => DuplicatesDiverge

\* the same where the script ran to its end
C6_DuplicatesDivergeAtEnd == pc = "fin" => DuplicatesDiverge

----------------------------------------------------------------------------
(* C7 *)

\* C7: when the run has ended, every record with no absent field, a currency
\* tag with USD or EUR and a sale_id of its own is a valid sale and is in none
\* of the buckets N, A, D, whatever the other records are.
C7_CleanRecordOnlyValid ==
    pc = "fin" =>
        \A i \in 1..Len(batch) :
            (OtherwiseValid(batch[i]) /\ ~SharesSaleId(i))
            => (InValidSale(i) /\ ~InInvalidSale(i))

----------------------------------------------------------------------------
(* C8 *)

\* the MM/YYYY of the date text of the record labelled i
MonthOfRecord(i) ==
    SubSeq(batch[i].Date, 6, 7) \o <<"/">> \o SubSeq(batch[i].Date, 1, 4)

\* the valid sales of the month and product
SalesOf(mes, producto) ==
    {k \in 1..Len(df_validas) :
        /\ MonthOfRecord(df_validas[k].fila) = mes
        /\ df_validas[k].Product = producto}

RECURSIVE SumOfAmounts(_)
SumOfAmounts(S) ==
    IF S = {} THEN 0
    ELSE LET k == CHOOSE x \in S : TRUE
         IN  df_validas[k].Amount + SumOfAmounts(S \ {k})

RECURSIVE SumOfCounts(_)
SumOfCounts(g) ==
    IF g = 0 THEN 0
    ELSE df_resumen[g].Numero_Transacciones + SumOfCounts(g - 1)

\* C8: the monthly summary has one row for each (month, product) of the valid
\* sales and no other row; the row's total is the sum of the amounts of the
\* sales of that month and product, its count their number, its minimum the
\* smallest of their amounts; the counts add up to the number of valid sales.
C8_OneRowPerMonthAndProduct ==
    pc = "fin" =>
        /\ \A k \in 1..Len(df_validas) :
               Cardinality({g \in 1..Len(df_resumen) :
                   /\ df_resumen[g].Mes = MonthOfRecord(df_validas[k].fila)
                   /\ df_resumen[g].Producto = df_validas[k].Product}) = 1
        /\ \A g \in 1..Len(df_resumen) :
               LET S == SalesOf(df_resumen[g].Mes, df_resumen[g].Producto)
               IN  /\ S # {}
                   /\ df_resumen[g].Ventas_Totales = SumOfAmounts(S)
                   /\ df_resumen[g].Numero_Transacciones = Cardinality(S)
                   /\ \E k \in S :
                          df_validas[k].Amount = df_resumen[g].Venta_Minima
                   /\ \A k \in S :
                          df_resumen[g].Venta_Minima <= df_validas[k].Amount
        /\ SumOfCounts(Len(df_resumen)) = Len(df_validas)

\* a summary of two rows, one of them of two sales of different amounts
C8_Witness ==
    /\ pc = "fin"
    /\ Len(df_resumen) = 2
    /\ \E g \in 1..Len(df_resumen) :
           /\ df_resumen[g].Numero_Transacciones = 2
           /\ df_resumen[g].Ventas_Totales = 18500
           /\ df_resumen[g].Venta_Minima = 8500

----------------------------------------------------------------------------
(* C9 *)

\* the last three letters of the raw text are E, U, R
RawEndsInEUR(raw) ==
    /\ Len(raw) >= 3
    /\ raw[Len(raw) - 2] = "E"
    /\ raw[Len(raw) - 1] = "U"
    /\ raw[Len(raw)] = "R"

\* the number left of the raw Amount of the k-th valid sale once USD and EUR
\* are removed
NumberOf(k) == ParseFloat(AmountArreglado(batch[df_validas[k].fila].Amount))

----------------------------------------------------------------------------
(* C10 *)

ReasonRank(reason) ==
    CASE reason = "N" -> 1
      [] reason = "A" -> 2
      [] reason = "D" -> 3

\* C10: in the invalid sales every N row comes before every A row and every
\* A row before every D row, and the rows of one reason are in input order.
C10_BucketsInOrder ==
    pc \in {"resumen", "fin"} =>
        \A i, j \in 1..Len(df_invalidas) :
            i < j =>
                /\ ReasonRank(df_invalidas[i].Reason)
                       <= ReasonRank(df_invalidas[j].Reason)
                /\ df_invalidas[i].Reason = df_invalidas[j].Reason
                       => df_invalidas[i].fila < df_invalidas[j].fila

\* the fourth record first as N, the third next as A, then the first two as D
C10_Witness ==
    /\ pc = "fin"
    /\ Len(df_invalidas) = 4
    /\ df_invalidas[1].Reason = "N" /\ df_invalidas[1].fila = 4
    /\ df_invalidas[2].Reason = "A" /\ df_invalidas[2].fila = 3
    /\ df_invalidas[3].Reason = "D" /\ df_invalidas[3].fila = 1
    /\ df_invalidas[4].Reason = "D" /\ df_invalidas[4].fila = 2

============================================================================
